---- MODULE Spec2Model ----
(***************************************************************************)
(* Job lifecycle of open-deepwiki: dispatch (TaskService), status          *)
(* reporting (TaskService.get_task_status), the two Celery tasks of        *)
(* backend/tasks.py and the URL resolver of GithubService.                 *)
(*                                                                         *)
(* Strings that the code inspects character by character (repository       *)
(* URLs) are sequences: the first element is the scheme-and-host prefix,   *)
(* every later element is one character of the path.                       *)
(***************************************************************************)
EXTENDS Integers, Sequences, FiniteSets, TLC

(***************************************************************************)
(* Bounds of the model.                                                    *)
(***************************************************************************)
\* number of jobs the worker pool hands an id to
MaxJobs == 2
\* number of database commits that fail for reasons outside the program
MaxDbFaults == 1
\* longest owner segment and longest name segment of the URLs the resolver is given
MaxOwnerLen == 2
MaxNameLen == 4

(***************************************************************************)
(* Characters and URLs.                                                    *)
(***************************************************************************)
GithubPrefix == "https://github.com/"

\* prefixes with an http or https scheme and a host (pydantic HttpUrl)
HttpPrefixes == {"https://github.com/", "http://github.com/", "https://example.com/"}

\* a-zA-Z0-9, restricted to the characters the model's URLs use
AlnumChars == {"a", "c", "m", "e", "w", "i", "d", "g", "t", "s", "1"}

\* character class [a-zA-Z0-9.-] of the first capture group
OwnerGroupChars == AlnumChars \cup {".", "-"}

\* character class [a-zA-Z0-9_.-] of the second capture group
RepoGroupChars == AlnumChars \cup {"_", ".", "-"}

\* {0,37} middle characters plus first and last: at most 39
OwnerMaxLen == 39

\* {1,100}
RepoMaxLen == 100

\* length of the longest prefix of s whose elements all lie in cls
RECURSIVE RunLen(_, _)
RunLen(s, cls) ==
    IF s = << >> \/ Head(s) \notin cls THEN 0 ELSE 1 + RunLen(Tail(s), cls)

\* a resolver that never finds the suffix, so never strips it
EndsWithNever(s, suf) == FALSE

\* str.endswith
EndsWith(s, suf) ==
    /\ Len(s) >= Len(suf)
    /\ SubSeq(s, Len(s) - Len(suf) + 1, Len(s)) = suf

\* ".." in repo
HasDotDot(s) == \E i \in 1..(Len(s) - 1) : s[i] = "." /\ s[i + 1] = "."

\* re.fullmatch(r"^[a-zA-Z0-9](?:[a-zA-Z0-9-]{0,37}[a-zA-Z0-9])?$", owner)
OwnerFullMatch(owner) ==
    /\ Len(owner) >= 1
    /\ Len(owner) <= OwnerMaxLen
    /\ owner[1] \in AlnumChars
    /\ owner[Len(owner)] \in AlnumChars
    /\ \A i \in 1..Len(owner) : owner[i] \in AlnumChars \cup {"-"}

\* re.fullmatch(r"^[a-zA-Z0-9_.-]{1,100}$", repo)
RepoFullMatch(repo) ==
    /\ Len(repo) >= 1
    /\ Len(repo) <= RepoMaxLen
    /\ \A i \in 1..Len(repo) : repo[i] \in RepoGroupChars

DotGit == <<".", "g", "i", "t">>

\* the value the resolver raises ValueError with, by message
FormatError == [ok |-> FALSE, error |-> "Invalid GitHub repository URL format", owner |-> << >>, repo |-> << >>]
OwnerError == [ok |-> FALSE, error |-> "Invalid owner name format", owner |-> << >>, repo |-> << >>]
RepoError == [ok |-> FALSE, error |-> "Invalid repository name format", owner |-> << >>, repo |-> << >>]

\* GithubService._extract_owner_repo_from_url
extract_owner_repo_from_url(repo_url) ==
    IF repo_url = << >> \/ Head(repo_url) # GithubPrefix
    THEN FormatError
    ELSE LET path == Tail(repo_url)
             n == RunLen(path, OwnerGroupChars)
             rest == SubSeq(path, n + 2, Len(path))
             k == RunLen(rest, RepoGroupChars)
             owner == SubSeq(path, 1, n)
             matched == SubSeq(rest, 1, k)
             repo == IF EndsWith(matched, DotGit)
                     THEN SubSeq(matched, 1, k - 4)
                     ELSE matched
         IN  IF n = 0 \/ Len(path) < n + 1 \/ path[n + 1] # "/" \/ k = 0
             THEN FormatError
             ELSE IF ~OwnerFullMatch(owner)
             THEN OwnerError
             ELSE IF ~RepoFullMatch(repo) \/ HasDotDot(repo) \/ repo[1] = "-"
             THEN RepoError
             ELSE [ok |-> TRUE, error |-> "", owner |-> owner, repo |-> repo]

\* RepositoryRequest.url : HttpUrl
HttpUrlValid(url) == url # << >> /\ Head(url) \in HttpPrefixes

UrlAcme == <<"https://github.com/", "a", "c", "m", "e", "/", "w", "i", "d", "g", "e", "t", "s">>
UrlBadHost == <<"https://example.com/", "a", "c", "m", "e", "/", "w", "i", "d", "g", "e", "t", "s">>
UrlBadOwner == <<"https://github.com/", "-", "a", "/", "w">>
UrlNotHttp == <<"not_a_valid_http_url">>

\* the URLs requests are made with
RequestUrls == {UrlAcme, UrlBadHost, UrlBadOwner, UrlNotHttp}

\* the URLs create_indexing_task is called with: those a request body can carry
ServiceUrls == {url \in RequestUrls : HttpUrlValid(url)}


(***************************************************************************)
(* State.                                                                  *)
(***************************************************************************)
VARIABLES
    celery_app,             \* task_service.py module global: TRUE when imported, FALSE when None
    index_repository_task,  \* task_service.py module global, likewise
    generate_wiki_task,     \* task_service.py module global, likewise
    next_id,                \* number of job ids the worker pool has handed out
    backend,                \* the worker pool's result store: id -> [status, result]
    job,                    \* the worker's side of each job: kind, url, position, locals
    tasks,                  \* table tasks (models.Task): id -> row
    repositories,           \* table repositories: sequence of rows, row i has id i
    knowledge_bases,        \* table knowledge_bases: set of rows
    wiki_documents,         \* table wiki_documents: set of rows
    faults,                 \* number of commits that have failed so far
    reply                   \* what the last call of the service or API layer returned

vars == <<celery_app, index_repository_task, generate_wiki_task, next_id, backend,
          job, tasks, repositories, knowledge_bases, wiki_documents, faults, reply>>

JobIds == 1..MaxJobs

\* Python None for a task id or a row id
NoId == 0

\* Python None for Task.progress
NoProgress == -1

\* Python None for Task.result, AsyncResult.result and a status dict's result
NoResult == [type |-> "none"]

\* the statuses the program writes or reports
PENDING == "PENDING"
STARTED == "STARTED"
PROGRESS == "PROGRESS"
SUCCESS == "SUCCESS"
FAILURE == "FAILURE"
REVOKED == "REVOKED"
RETRY == "RETRY"
UNKNOWN == "UNKNOWN"
ERROR_FETCHING_STATUS == "ERROR_FETCHING_STATUS"

TerminalStatuses == {SUCCESS, FAILURE, REVOKED}

\* no row with this id in table tasks
NoRow == [exists |-> FALSE, status |-> "", progress |-> NoProgress,
          result |-> NoResult, repository_id |-> NoId]

\* a row of table tasks as a job's creator leaves it
PendingRow == [exists |-> TRUE, status |-> PENDING, progress |-> NoProgress,
               result |-> NoResult, repository_id |-> NoId]

\* no exception is being handled
NoExc == [type |-> "", detail |-> "", status_code |-> 0]

\* a job id nobody has submitted work for
NoJob == [kind |-> "none", url |-> << >>, pc |-> "none", repository |-> NoId,
          exc |-> NoExc, session_failed |-> FALSE]

\* what the result store reports for an id it holds nothing for
PendingResult == [status |-> PENDING, result |-> NoResult]

NoReply == [op |-> "none"]

(***************************************************************************)
(* TaskService: dispatch.                                                  *)
(***************************************************************************)
\* TaskService._dispatch_task without its try/except
dispatch_task_uncaught(app, task_function, submit_raises, new_id) ==
    IF ~app \/ ~task_function
    THEN [raised |-> FALSE, task_id |-> NoId]
    ELSE IF submit_raises
    THEN [raised |-> TRUE, task_id |-> NoId]
    ELSE [raised |-> FALSE, task_id |-> new_id]

\* TaskService._dispatch_task: the id apply_async returns, or None
dispatch_task(app, task_function, submit_raises, new_id) ==
    IF ~app \/ ~task_function
    THEN [raised |-> FALSE, task_id |-> NoId]
    ELSE IF submit_raises
    THEN [raised |-> FALSE, task_id |-> NoId]
    ELSE [raised |-> FALSE, task_id |-> new_id]

\* TaskService.create_indexing_task
create_indexing_task(submit_raises, new_id) ==
    IF ~index_repository_task
    THEN [raised |-> FALSE, task_id |-> NoId]
    ELSE dispatch_task(celery_app, index_repository_task, submit_raises, new_id)

\* TaskService.create_wiki_generation_task
create_wiki_generation_task(submit_raises, new_id) ==
    IF ~generate_wiki_task
    THEN [raised |-> FALSE, task_id |-> NoId]
    ELSE dispatch_task(celery_app, generate_wiki_task, submit_raises, new_id)

\* apply_async has queued the job: the only state a successful dispatch changes
Submitted(d, kind, url) ==
    IF d.task_id # NoId
    THEN /\ next_id' = d.task_id
         /\ job' = [job EXCEPT ![d.task_id] = [NoJob EXCEPT !.kind = kind, !.url = url, !.pc = "queued"]]
    ELSE UNCHANGED <<next_id, job>>

\* a caller invokes TaskService.create_indexing_task(url)
CreateIndexingTask(url, submit_raises) ==
    /\ next_id < MaxJobs
    /\ LET d == create_indexing_task(submit_raises, next_id + 1)
       IN  /\ Submitted(d, "index", url)
           /\ reply' = [op |-> "create_indexing_task", url |-> url,
                        submit_raises |-> submit_raises,
                        raised |-> d.raised, task_id |-> d.task_id]
    /\ UNCHANGED <<celery_app, index_repository_task, generate_wiki_task, backend, tasks,
                   repositories, knowledge_bases, wiki_documents, faults>>

\* POST /api/wiki/generate
TriggerWikiGeneration(url, submit_raises) ==
    /\ next_id < MaxJobs
    /\ IF ~HttpUrlValid(url)
       THEN /\ reply' = [op |-> "trigger_wiki_generation", url |-> url,
                         submit_raises |-> submit_raises, raised |-> FALSE,
                         status_code |-> 422, task_id |-> NoId]
            /\ UNCHANGED <<next_id, job>>
       ELSE LET d == create_wiki_generation_task(submit_raises, next_id + 1)
            IN  /\ Submitted(d, "wiki", url)
                /\ reply' = [op |-> "trigger_wiki_generation", url |-> url,
                             submit_raises |-> submit_raises, raised |-> d.raised,
                             status_code |-> IF d.task_id = NoId THEN 500 ELSE 200,
                             task_id |-> d.task_id]
    /\ UNCHANGED <<celery_app, index_repository_task, generate_wiki_task, backend, tasks,
                   repositories, knowledge_bases, wiki_documents, faults>>


(***************************************************************************)
(* TaskService: status reporting.                                          *)
(***************************************************************************)
\* the dict of the `if not celery_app` branch
UnknownStatus(task_id) ==
    [task_id |-> task_id, status |-> UNKNOWN,
     result |-> [type |-> "str", text |-> "Celery connection error."]]

\* the dict of the `except Exception as e` branch: result is str(e)
ErrorFetchingStatus(task_id) ==
    [task_id |-> task_id, status |-> ERROR_FETCHING_STATUS,
     result |-> [type |-> "str", text |-> "AsyncResult internal error"]]

\* AsyncResult.failed()
failed(async_result) == async_result.status = FAILURE

\* AsyncResult.successful()
successful(async_result) == async_result.status = SUCCESS

\* AsyncResult.info, the result store's alias of result
info(async_result) == async_result.result

\* f"Failure: {str(result_data)}"
FailureText(result_data) == [type |-> "str", text |-> "Failure: ", of |-> result_data]

\* result_data handed on without the classification
result_value_unclassified(async_result) == async_result.result

\* the classification of result by the worker pool's state
result_value(async_result) ==
    IF failed(async_result) THEN FailureText(async_result.result)
    ELSE IF successful(async_result) THEN async_result.result
    ELSE NoResult

\* the dict of the normal path
StatusDict(task_id, async_result) ==
    [task_id |-> task_id, status |-> async_result.status,
     result |-> result_value(async_result), details |-> info(async_result)]

\* TaskService.get_task_status without its try/except
get_task_status_uncaught(app, task_id, async_result, query_raises) ==
    IF ~app THEN [raised |-> FALSE, value |-> UnknownStatus(task_id)]
    ELSE IF query_raises THEN [raised |-> TRUE, value |-> NoResult]
    ELSE [raised |-> FALSE, value |-> StatusDict(task_id, async_result)]

\* TaskService.get_task_status
get_task_status(app, task_id, async_result, query_raises) ==
    IF ~app THEN [raised |-> FALSE, value |-> UnknownStatus(task_id)]
    ELSE IF query_raises THEN [raised |-> FALSE, value |-> ErrorFetchingStatus(task_id)]
    ELSE [raised |-> FALSE, value |-> StatusDict(task_id, async_result)]

\* the write the DB_SIMULATION comment describes: db_task.update(status=status, ...)
StatusSideEffectsDbUpdate(task_id, value) ==
    /\ tasks' = [tasks EXCEPT ![task_id] =
                    IF @.exists THEN [@ EXCEPT !.status = value.status] ELSE @]
    /\ UNCHANGED <<backend, job, repositories, knowledge_bases, wiki_documents>>

\* what get_task_status does to the stores: nothing, it only logs
StatusSideEffects(task_id, value) ==
    UNCHANGED <<backend, job, tasks, repositories, knowledge_bases, wiki_documents>>

\* a caller polls TaskService.get_task_status(task_id)
GetTaskStatus(task_id, query_raises) ==
    /\ LET r == get_task_status(celery_app, task_id, backend[task_id], query_raises)
       IN  /\ reply' = [op |-> "get_task_status", task_id |-> task_id,
                        query_raises |-> query_raises, polled |-> backend[task_id],
                        raised |-> r.raised, value |-> r.value]
           /\ StatusSideEffects(task_id, r.value)
    /\ UNCHANGED <<celery_app, index_repository_task, generate_wiki_task, next_id, faults>>


(***************************************************************************)
(* Collaborators of the worker.                                            *)
(***************************************************************************)
\* keyword parameters of IndexPipeline.__init__(self, config=None)
IndexPipelineInitParams == {"config"}

\* IndexPipeline(**kwargs): Python raises TypeError for an unknown keyword
IndexPipeline(kwargs) ==
    IF kwargs \subseteq IndexPipelineInitParams
    THEN [ok |-> TRUE, exc |-> NoExc]
    ELSE [ok |-> FALSE, exc |-> [type |-> "TypeError", detail |-> "unexpected keyword argument", status_code |-> 0]]

\* required parameters of WikiPipeline.run(self, repository_id, ..., **kwargs)
WikiPipelineRunRequired == {"repository_id"}

\* WikiPipeline.run(**kwargs): Python raises TypeError for a missing argument
WikiPipelineRun(kwargs) ==
    IF WikiPipelineRunRequired \subseteq kwargs
    THEN [ok |-> TRUE, exc |-> NoExc]
    ELSE [ok |-> FALSE, exc |-> [type |-> "TypeError", detail |-> "missing required argument", status_code |-> 0]]

HTTPException(code, detail) == [type |-> "HTTPException", detail |-> detail, status_code |-> code]

\* what the request to api.github.com/repos/{owner}/{repo}/readme can come to
GithubResponses == {"text", "whitespace", "decodes_empty", "no_content", "bad_base64",
                    "timeout", "request_error", "status_404", "status_403", "status_401",
                    "status_500"}

\* the responses the jobs of the model meet
FetchOutcomes == {"text", "whitespace", "timeout", "request_error"}

\* GithubService.get_readme_content
get_readme_content(repo_url, gh) ==
    IF ~extract_owner_repo_from_url(repo_url).ok
    THEN [ok |-> FALSE, text |-> "", exc |-> HTTPException(400, "Invalid GitHub repository URL")]
    ELSE CASE gh = "timeout" -> [ok |-> FALSE, text |-> "", exc |-> HTTPException(408, "Request to GitHub API timed out.")]
           [] gh = "request_error" -> [ok |-> FALSE, text |-> "", exc |-> HTTPException(503, "Service unavailable")]
           [] gh = "status_404" -> [ok |-> FALSE, text |-> "", exc |-> HTTPException(404, "README not found in repository")]
           [] gh = "status_403" -> [ok |-> FALSE, text |-> "", exc |-> HTTPException(403, "Access to GitHub API forbidden.")]
           [] gh = "status_401" -> [ok |-> FALSE, text |-> "", exc |-> HTTPException(401, "Unauthorized access to GitHub API.")]
           [] gh = "status_500" -> [ok |-> FALSE, text |-> "", exc |-> HTTPException(500, "GitHub API error")]
           [] gh = "no_content" -> [ok |-> FALSE, text |-> "", exc |-> HTTPException(404, "README content not found or is empty")]
           [] gh = "bad_base64" -> [ok |-> FALSE, text |-> "", exc |-> HTTPException(500, "Error decoding README content from Base64")]
           [] gh = "decodes_empty" -> [ok |-> TRUE, text |-> "", exc |-> NoExc]
           [] gh = "whitespace" -> [ok |-> TRUE, text |-> " ", exc |-> NoExc]
           [] gh = "text" -> [ok |-> TRUE, text |-> "# Widgets", exc |-> NoExc]

\* a service that hands the README on as the wiki, with no check of the text
generate_wiki_unchecked(repo_url, gh) ==
    LET readme == get_readme_content(repo_url, gh)
    IN  IF ~readme.ok
        THEN [ok |-> FALSE, text |-> "", exc |-> readme.exc]
        ELSE [ok |-> TRUE, text |-> readme.text, exc |-> NoExc]

\* WikiService.generate_wiki_from_repo_readme
generate_wiki_from_repo_readme(repo_url, gh) ==
    LET readme == get_readme_content(repo_url, gh)
        run == WikiPipelineRun({"data"})
    IN  IF ~readme.ok
        THEN [ok |-> FALSE, text |-> "", exc |-> readme.exc]
        ELSE IF readme.text \in {"", " "}
        THEN [ok |-> FALSE, text |-> "", exc |-> HTTPException(404, "README content is empty or consists only of whitespace")]
        ELSE IF ~run.ok
        THEN [ok |-> FALSE, text |-> "", exc |-> HTTPException(500, "Wiki generation process failed")]
        ELSE [ok |-> FALSE, text |-> "", exc |-> HTTPException(500, "Failed to extract content from wiki generation pipeline output.")]


(***************************************************************************)
(* The worker: backend/tasks.py.                                           *)
(***************************************************************************)
\* a helper that inserts the row when it finds none
update_task_status_upsert(row, status, result, progress, commit_ok) ==
    IF commit_ok
    THEN [row EXCEPT !.exists = TRUE,
                     !.status = status,
                     !.result = IF result # NoResult THEN result ELSE @,
                     !.progress = IF progress # NoProgress THEN progress ELSE @]
    ELSE row

\* update_task_status_in_db on the row with the task's id; commit_ok is
\* FALSE when the query or the commit raises, which the helper answers with
\* a rollback
update_task_status_in_db(row, status, result, progress, commit_ok) ==
    IF row.exists /\ commit_ok
    THEN [row EXCEPT !.status = status,
                     !.result = IF result # NoResult THEN result ELSE @,
                     !.progress = IF progress # NoProgress THEN progress ELSE @]
    ELSE row

\* a status write of job j and the fault it may meet
StatusWrite(j, status, result, progress, commit_ok) ==
    /\ commit_ok \/ (tasks[j].exists /\ faults < MaxDbFaults)
    /\ tasks' = [tasks EXCEPT ![j] = update_task_status_in_db(@, status, result, progress, commit_ok)]
    /\ faults' = IF commit_ok THEN faults ELSE faults + 1

\* error_info of the except blocks
error_info(e) == [type |-> "error_info", error |-> e, traceback |-> TRUE]

\* the result line 198 writes before raising
RepositoryNotFoundResult ==
    [type |-> "error_info",
     error |-> [type |-> "", detail |-> "Repository not found", status_code |-> 0],
     traceback |-> FALSE]

\* a percentage written as a per-mille value
WikiGenerateProgressPerMille == 10 * 30

\* the progress generate_wiki_task reports before generating
WikiGenerateProgress == 30

\* the progress both except blocks write
FailureProgress == 0

\* an except block that asks for a retry instead
ExceptStatusRetry == RETRY

\* the status both except blocks write
ExceptStatus == FAILURE

\* a task that answers an exception by queueing itself again (self.retry)
RaiseAndRetry(j, e, session_failed) ==
    job' = [job EXCEPT ![j].pc = "queued", ![j].repository = NoId]

\* an exception e leaves the try block of job j for its except block
Raise(j, e, session_failed) ==
    job' = [job EXCEPT ![j].pc = "except", ![j].exc = e, ![j].session_failed = session_failed]

Goto(j, pc) == job' = [job EXCEPT ![j].pc = pc]

\* db.query(Repository).filter(Repository.url == repo_url).first()
RepositoryByUrl(url) ==
    IF \E i \in 1..Len(repositories) : repositories[i].url = url
    THEN CHOOSE i \in 1..Len(repositories) :
             /\ repositories[i].url = url
             /\ \A k \in 1..(i - 1) : repositories[k].url # url
    ELSE NoId

\* lines 67-71 and 187-191: the worker picks the job up and writes STARTED
TaskStart(j, commit_ok) ==
    /\ job[j].pc = "queued"
    /\ StatusWrite(j, STARTED, NoResult, NoProgress, commit_ok)
    /\ Goto(j, "find_repository")
    /\ UNCHANGED <<celery_app, index_repository_task, generate_wiki_task, next_id, backend,
                   repositories, knowledge_bases, wiki_documents>>
    /\ reply' = NoReply

\* lines 75-78: resolve owner and name, look the repository up by url
IndexFindRepository(j) ==
    /\ job[j].kind = "index" /\ job[j].pc = "find_repository"
    /\ LET r == extract_owner_repo_from_url(job[j].url)
           found == RepositoryByUrl(job[j].url)
       IN  IF ~r.ok
           THEN Raise(j, [type |-> "ValueError", detail |-> r.error, status_code |-> 0], FALSE)
           ELSE IF found = NoId
           THEN Goto(j, "create_repository")
           ELSE job' = [job EXCEPT ![j].pc = "associate", ![j].repository = found]
    /\ UNCHANGED <<celery_app, index_repository_task, generate_wiki_task, next_id, backend,
                   tasks, repositories, knowledge_bases, wiki_documents, faults>>
    /\ reply' = NoReply

\* lines 79-86: insert the Repository row and commit; url is unique
IndexCreateRepository(j, commit_ok) ==
    /\ job[j].kind = "index" /\ job[j].pc = "create_repository"
    /\ commit_ok \/ faults < MaxDbFaults
    /\ LET r == extract_owner_repo_from_url(job[j].url)
       IN  IF RepositoryByUrl(job[j].url) # NoId
           THEN /\ Raise(j, [type |-> "IntegrityError", detail |-> "repositories.url", status_code |-> 0], TRUE)
                /\ UNCHANGED <<repositories, faults>>
           ELSE IF ~commit_ok
           THEN /\ Raise(j, [type |-> "OperationalError", detail |-> "commit", status_code |-> 0], TRUE)
                /\ faults' = faults + 1
                /\ UNCHANGED repositories
           ELSE /\ repositories' = Append(repositories,
                        [id |-> Len(repositories) + 1, url |-> job[j].url,
                         name |-> r.repo, owner |-> r.owner])
                /\ job' = [job EXCEPT ![j].pc = "associate", ![j].repository = Len(repositories) + 1]
                /\ UNCHANGED faults
    /\ UNCHANGED <<celery_app, index_repository_task, generate_wiki_task, next_id, backend,
                   tasks, knowledge_bases, wiki_documents>>
    /\ reply' = NoReply

\* lines 90-94: link the job record to the repository
IndexAssociate(j, commit_ok) ==
    /\ job[j].kind = "index" /\ job[j].pc = "associate"
    /\ commit_ok \/ (tasks[j].exists /\ faults < MaxDbFaults)
    /\ IF ~commit_ok
       THEN /\ Raise(j, [type |-> "OperationalError", detail |-> "commit", status_code |-> 0], TRUE)
            /\ faults' = faults + 1
            /\ UNCHANGED tasks
       ELSE /\ tasks' = [tasks EXCEPT ![j].repository_id =
                            IF tasks[j].exists THEN job[j].repository ELSE @]
            /\ Goto(j, "instantiate")
            /\ UNCHANGED faults
    /\ UNCHANGED <<celery_app, index_repository_task, generate_wiki_task, next_id, backend,
                   repositories, knowledge_bases, wiki_documents>>
    /\ reply' = NoReply

\* lines 102-103: IndexPipeline(document_store=None).  The constructor takes
\* no such keyword, so the call raises and lines 105-169 never run.
IndexInstantiate(j) ==
    /\ job[j].kind = "index" /\ job[j].pc = "instantiate"
    /\ LET p == IndexPipeline({"document_store"})
       IN  /\ ~p.ok
           /\ Raise(j, p.exc, FALSE)
    /\ UNCHANGED <<celery_app, index_repository_task, generate_wiki_task, next_id, backend,
                   tasks, repositories, knowledge_bases, wiki_documents, faults>>
    /\ reply' = NoReply

\* lines 195-202: the repository must exist; if not, write FAILURE and raise
WikiFindRepository(j, commit_ok) ==
    /\ job[j].kind = "wiki" /\ job[j].pc = "find_repository"
    /\ LET found == RepositoryByUrl(job[j].url)
       IN  IF found = NoId
           THEN /\ StatusWrite(j, FAILURE, RepositoryNotFoundResult, NoProgress, commit_ok)
                /\ Raise(j, [type |-> "ValueError", detail |-> "Repository not found in database", status_code |-> 0], FALSE)
           ELSE /\ commit_ok
                /\ job' = [job EXCEPT ![j].pc = "associate", ![j].repository = found]
                /\ UNCHANGED <<tasks, faults>>
    /\ UNCHANGED <<celery_app, index_repository_task, generate_wiki_task, next_id, backend,
                   repositories, knowledge_bases, wiki_documents>>
    /\ reply' = NoReply

\* lines 204-208: link the job record to the repository if it has no link
WikiAssociate(j, commit_ok) ==
    /\ job[j].kind = "wiki" /\ job[j].pc = "associate"
    /\ commit_ok \/ (tasks[j].exists /\ tasks[j].repository_id = NoId /\ faults < MaxDbFaults)
    /\ IF ~commit_ok
       THEN /\ Raise(j, [type |-> "OperationalError", detail |-> "commit", status_code |-> 0], TRUE)
            /\ faults' = faults + 1
            /\ UNCHANGED tasks
       ELSE /\ tasks' = [tasks EXCEPT ![j].repository_id =
                            IF tasks[j].exists /\ @ = NoId THEN job[j].repository ELSE @]
            /\ Goto(j, "progress")
            /\ UNCHANGED faults
    /\ UNCHANGED <<celery_app, index_repository_task, generate_wiki_task, next_id, backend,
                   repositories, knowledge_bases, wiki_documents>>
    /\ reply' = NoReply

\* lines 212-218: build the services, write PROGRESS
WikiProgress(j, commit_ok) ==
    /\ job[j].kind = "wiki" /\ job[j].pc = "progress"
    /\ StatusWrite(j, PROGRESS, NoResult, WikiGenerateProgress, commit_ok)
    /\ Goto(j, "generate")
    /\ UNCHANGED <<celery_app, index_repository_task, generate_wiki_task, next_id, backend,
                   repositories, knowledge_bases, wiki_documents>>
    /\ reply' = NoReply

\* the result line 232 writes before raising
NoContentResult ==
    [type |-> "error_info",
     error |-> [type |-> "", detail |-> "Wiki generation returned no content.", status_code |-> 0],
     traceback |-> FALSE]

\* lines 241-256: update the repository's WikiDocument, or insert version 1
StoreWikiDocument(docs, repository_id, text) ==
    IF \E d \in docs : d.repository_id = repository_id
    THEN LET doc == CHOOSE d \in docs : d.repository_id = repository_id
         IN  (docs \ {doc}) \cup {[doc EXCEPT !.content_markdown = text, !.version = @ + 1]}
    ELSE docs \cup {[id |-> Cardinality(docs) + 1, repository_id |-> repository_id,
                     content_markdown |-> text, version |-> 1]}

\* lines 220-262: asyncio.run(wiki_service.generate_wiki_from_repo_readme(repo_url)),
\* the check of its output, and the storing of the WikiDocument.
\* The service raises on every path, so the two later branches never run.
WikiGenerate(j, gh) ==
    /\ job[j].kind = "wiki" /\ job[j].pc = "generate"
    /\ LET g == generate_wiki_from_repo_readme(job[j].url, gh)
       IN  IF ~g.ok
           THEN /\ Raise(j, g.exc, FALSE)
                /\ UNCHANGED <<backend, tasks, wiki_documents>>
           ELSE IF g.text = ""
           THEN /\ tasks' = [tasks EXCEPT ![j] =
                                update_task_status_in_db(@, FAILURE, NoContentResult, NoProgress, TRUE)]
                /\ Raise(j, [type |-> "ValueError", detail |-> "Wiki generation returned no content.",
                             status_code |-> 0], FALSE)
                /\ UNCHANGED <<backend, wiki_documents>>
           ELSE /\ wiki_documents' = StoreWikiDocument(wiki_documents, job[j].repository, g.text)
                /\ tasks' = [tasks EXCEPT ![j] =
                                update_task_status_in_db(@, SUCCESS,
                                    [type |-> "payload", message |-> "Successfully generated wiki"],
                                    100, TRUE)]
                /\ backend' = [backend EXCEPT ![j] =
                                  [status |-> SUCCESS,
                                   result |-> [type |-> "payload", message |-> "Successfully generated wiki"]]]
                /\ job' = [job EXCEPT ![j].pc = "done", ![j].repository = NoId]
    /\ UNCHANGED <<celery_app, index_repository_task, generate_wiki_task, next_id,
                   repositories, knowledge_bases, faults>>
    /\ reply' = NoReply

\* a handler that returns the error description instead of raising: the
\* pool then stores it as the payload of a successful job
ReturnedAsPayload(e) == [status |-> SUCCESS, result |-> error_info(e)]

\* lines 176 and 268: `raise` at the end of the handler; the exception leaves
\* the worker function and the pool stores it with status FAILURE
Reraised(e) == [status |-> FAILURE, result |-> [type |-> "exception", of |-> e]]

\* lines 171-176 and 264-268, then db_session_scope's rollback and the
\* worker pool recording the raised exception.  After a failed commit the
\* session may refuse the query of the status write; the helper swallows that.
TaskExcept(j, commit_ok) ==
    /\ job[j].pc = "except"
    /\ commit_ok \/ (tasks[j].exists /\ (job[j].session_failed \/ faults < MaxDbFaults))
    /\ tasks' = [tasks EXCEPT ![j] = update_task_status_in_db(@, ExceptStatus,
                                        error_info(job[j].exc), FailureProgress, commit_ok)]
    /\ faults' = IF commit_ok \/ job[j].session_failed THEN faults ELSE faults + 1
    /\ backend' = [backend EXCEPT ![j] = Reraised(job[j].exc)]
    /\ job' = [job EXCEPT ![j].pc = "done", ![j].repository = NoId,
                           ![j].exc = NoExc, ![j].session_failed = FALSE]
    /\ UNCHANGED <<celery_app, index_repository_task, generate_wiki_task, next_id,
                   repositories, knowledge_bases, wiki_documents>>
    /\ reply' = NoReply

(***************************************************************************)
(* The job lifecycle.                                                   *)
(***************************************************************************)
\* Nothing in the code inserts into table tasks (dispatch only logs), so the
\* rows are there only if a writer outside this code keeps them; the worker
\* looks its row up by id and handles both cases.
TaskTables == {[j \in JobIds |-> NoRow], [j \in JobIds |-> PendingRow]}

Init ==
    /\ celery_app \in BOOLEAN
    /\ index_repository_task \in BOOLEAN
    /\ generate_wiki_task \in BOOLEAN
    /\ next_id = 0
    /\ backend = [j \in JobIds |-> PendingResult]
    /\ job = [j \in JobIds |-> NoJob]
    /\ tasks \in TaskTables
    /\ repositories = << >>
    /\ knowledge_bases = {}
    /\ wiki_documents = {}
    /\ faults = 0
    /\ reply = NoReply

\* the calls that create jobs
Dispatch ==
    \/ \E url \in ServiceUrls, submit_raises \in BOOLEAN : CreateIndexingTask(url, submit_raises)
    \/ \E url \in RequestUrls, submit_raises \in BOOLEAN : TriggerWikiGeneration(url, submit_raises)

\* the next step of the worker process that runs job j
Step(j) ==
    \/ \E commit_ok \in BOOLEAN : TaskStart(j, commit_ok)
    \/ IndexFindRepository(j)
    \/ \E commit_ok \in BOOLEAN : IndexCreateRepository(j, commit_ok)
    \/ \E commit_ok \in BOOLEAN : IndexAssociate(j, commit_ok)
    \/ IndexInstantiate(j)
    \/ \E commit_ok \in BOOLEAN : WikiFindRepository(j, commit_ok)
    \/ \E commit_ok \in BOOLEAN : WikiAssociate(j, commit_ok)
    \/ \E commit_ok \in BOOLEAN : WikiProgress(j, commit_ok)
    \/ \E gh \in FetchOutcomes : WikiGenerate(j, gh)
    \/ \E commit_ok \in BOOLEAN : TaskExcept(j, commit_ok)

\* the worker processes run their jobs side by side
Work == \E j \in JobIds : Step(j)

\* job j is being executed
Running(j) == job[j].pc \notin {"none", "queued", "done"}

\* a pool of one worker process: a job is taken up when no other is running
WorkInSequence == \E j \in JobIds : (\A k \in JobIds \ {j} : ~Running(k)) /\ Step(j)

\* a caller polls the status of any id
Poll == \E j \in JobIds, query_raises \in BOOLEAN : GetTaskStatus(j, query_raises)

Next == Dispatch \/ Work

Spec == Init /\ [][Next]_vars


(***************************************************************************)
(* The jobs run one after the other.                                       *)
(***************************************************************************)
NextSeq == Dispatch \/ WorkInSequence

SpecSeq == Init /\ [][NextSeq]_vars

(***************************************************************************)
(* Polling while jobs run, over a database that does not fail.             *)
(***************************************************************************)
InitPoll ==
    /\ celery_app \in BOOLEAN
    /\ index_repository_task = celery_app
    /\ generate_wiki_task = celery_app
    /\ next_id = 0
    /\ backend = [j \in JobIds |-> PendingResult]
    /\ job = [j \in JobIds |-> NoJob]
    /\ tasks \in TaskTables
    /\ repositories = << >>
    /\ knowledge_bases = {}
    /\ wiki_documents = {}
    /\ faults = MaxDbFaults
    /\ reply = NoReply

NextPoll == Dispatch \/ Work \/ Poll

SpecPoll == InitPoll /\ [][NextPoll]_vars

(***************************************************************************)
(* The status reporter over everything the result store can answer.        *)
(***************************************************************************)
\* the states of the worker pool's vocabulary
PoolStatuses == {PENDING, STARTED, PROGRESS, RETRY, REVOKED, SUCCESS, FAILURE}

\* what AsyncResult.result holds: nothing, progress metadata, an exception, a return value
PoolResults == {NoResult,
                [type |-> "meta", percent |-> 60],
                [type |-> "exception", of |-> [type |-> "ValueError", detail |-> "Task failed badly", status_code |-> 0]],
                [type |-> "payload", message |-> "Task completed successfully."]}

AsyncResults == [status : PoolStatuses, result : PoolResults]

InitStatus ==
    /\ celery_app \in BOOLEAN
    /\ index_repository_task = celery_app
    /\ generate_wiki_task = celery_app
    /\ next_id = 0
    /\ backend \in [JobIds -> AsyncResults]
    /\ job = [j \in JobIds |-> NoJob]
    /\ tasks \in TaskTables
    /\ repositories = << >>
    /\ knowledge_bases = {}
    /\ wiki_documents = {}
    /\ faults = 0
    /\ reply = NoReply

NextStatus == Poll

SpecStatus == InitStatus /\ [][NextStatus]_vars

(***************************************************************************)
(* Jobs against a fixed answer of api.github.com, and jobs that start on   *)
(* a database an earlier index run has left its Repository row in.         *)
(***************************************************************************)
\* a step of job j when every request to api.github.com comes to gh
StepUnder(j, gh) ==
    /\ Step(j)
    /\ job[j].pc = "generate" =>
           job'[j].exc = generate_wiki_from_repo_readme(job[j].url, gh).exc

\* the README is there: every fetch returns text
WorkReadable == \E j \in JobIds : StepUnder(j, "text")

WorkReadableInSequence ==
    \E j \in JobIds : (\A k \in JobIds \ {j} : ~Running(k)) /\ StepUnder(j, "text")

\* every fetch times out
WorkTimesOut == \E j \in JobIds : StepUnder(j, "timeout")

\* the Repository row lines 79-85 insert for UrlAcme
AcmeRepository ==
    [id |-> 1, url |-> UrlAcme,
     name |-> extract_owner_repo_from_url(UrlAcme).repo,
     owner |-> extract_owner_repo_from_url(UrlAcme).owner]

\* the state an index run for UrlAcme leaves behind, with the service imported
InitIndexed ==
    /\ celery_app = TRUE
    /\ index_repository_task = TRUE
    /\ generate_wiki_task = TRUE
    /\ next_id = 0
    /\ backend = [j \in JobIds |-> PendingResult]
    /\ job = [j \in JobIds |-> NoJob]
    /\ tasks \in TaskTables
    /\ repositories = <<AcmeRepository>>
    /\ knowledge_bases = {}
    /\ wiki_documents = {}
    /\ faults = 0
    /\ reply = NoReply

NextReadable == Dispatch \/ WorkReadable

SpecReadable == Init /\ [][NextReadable]_vars

NextTimesOut == Dispatch \/ WorkTimesOut

SpecTimesOut == Init /\ [][NextTimesOut]_vars

NextIndexedSeq == Dispatch \/ WorkReadableInSequence

SpecIndexedSeq == InitIndexed /\ [][NextIndexedSeq]_vars

SpecIndexed == InitIndexed /\ [][NextReadable]_vars

(***************************************************************************)
(* The resolver on its own, over every URL of bounded segments.            *)
(***************************************************************************)
\* the sequences over S of length 1..n
SeqsUpTo(S, n) == UNION {[1..k -> S] : k \in 1..n}

\* characters of the first path segment: legal ones, a period, an underscore
OwnerSegmentChars == {"a", "-", ".", "_"}

\* characters of the second path segment: legal ones and one outside the class
NameSegmentChars == {"a", "-", ".", "$"}

\* what follows the second segment: nothing, a slash, .git, .git and a slash, a further path
UrlTails == {<< >>, <<"/">>, DotGit, DotGit \o <<"/">>, <<"/", "m", "a", "i", "n">>}

\* "https://github.com/" + owner + "/" + name + tail
UrlOf(owner, name, tail) == <<GithubPrefix>> \o owner \o <<"/">> \o name \o tail

\* a caller is about to resolve a URL
ResolverCalls ==
    [op : {"call"}, owner : SeqsUpTo(OwnerSegmentChars, MaxOwnerLen),
     name : SeqsUpTo(NameSegmentChars, MaxNameLen), tail : UrlTails]

InitUrl ==
    /\ celery_app = TRUE
    /\ index_repository_task = TRUE
    /\ generate_wiki_task = TRUE
    /\ next_id = 0
    /\ backend = [j \in JobIds |-> PendingResult]
    /\ job = [j \in JobIds |-> NoJob]
    /\ tasks = [j \in JobIds |-> NoRow]
    /\ repositories = << >>
    /\ knowledge_bases = {}
    /\ wiki_documents = {}
    /\ faults = 0
    /\ reply \in ResolverCalls

\* GithubService._extract_owner_repo_from_url(url) returns or raises
ExtractOwnerRepo ==
    /\ reply.op = "call"
    /\ reply' = [op |-> "extract_owner_repo_from_url",
                 owner |-> reply.owner, name |-> reply.name, tail |-> reply.tail,
                 result |-> extract_owner_repo_from_url(
                                UrlOf(reply.owner, reply.name, reply.tail))]
    /\ UNCHANGED <<celery_app, index_repository_task, generate_wiki_task, next_id, backend,
                   job, tasks, repositories, knowledge_bases, wiki_documents, faults>>

NextUrl == ExtractOwnerRepo

SpecUrl == InitUrl /\ [][NextUrl]_vars

(***************************************************************************)
(* Properties.                                                             *)
(***************************************************************************)
DispatchOps == {"create_indexing_task", "trigger_wiki_generation"}

\* C1: when dispatch returns a job id, a job record with status PENDING
\* exists in table tasks under that id, readable at once.
C1_DispatchLeavesPendingRecord ==
    (reply.op \in DispatchOps /\ reply.task_id # NoId)
        => (tasks[reply.task_id].exists /\ tasks[reply.task_id].status = PENDING)

\* C2: dispatch never raises to its caller; with the worker pool client
\* missing, the work function unregistered or the submission throwing, it
\* returns no id and nothing has been submitted.
C2_DispatchNeverRaises ==
    [][reply'.op \in DispatchOps =>
         LET fn == IF reply'.op = "create_indexing_task"
                   THEN index_repository_task ELSE generate_wiki_task
         IN  /\ ~reply'.raised
             /\ (~celery_app \/ ~fn \/ reply'.submit_raises)
                    => (reply'.task_id = NoId /\ UNCHANGED <<next_id, job, backend, tasks>>)]_vars

\* the submission threw inside an otherwise working service, and the caller got None
C2_Witness ==
    /\ reply.op = "create_indexing_task"
    /\ celery_app /\ index_repository_task
    /\ reply.submit_raises
    /\ reply.task_id = NoId

\* C3: once a job record's status is SUCCESS, FAILURE or REVOKED, no later
\* write changes it to another value.
C3_TerminalStatusStable ==
    [][\A j \in JobIds :
         (tasks[j].exists /\ tasks[j].status \in TerminalStatuses)
             => tasks'[j].status = tasks[j].status]_vars

\* a wiki job whose repository was missing: line 198 wrote FAILURE, then the
\* except block wrote again (no commit failed, so both writes went through)
C3_Witness ==
    \E j \in JobIds :
        /\ job[j].kind = "wiki" /\ job[j].pc = "done"
        /\ faults = 0
        /\ tasks[j].status = FAILURE
        /\ tasks[j].result = error_info([type |-> "ValueError",
                                         detail |-> "Repository not found in database",
                                         status_code |-> 0])

\* C4: a stored progress is None or lies in 0..100, and no status write that
\* leaves the job record non-terminal lowers it.
C4_ProgressMonotone ==
    [][\A j \in JobIds :
         /\ tasks'[j].progress \in ({NoProgress} \cup (0..100))
         /\ (tasks'[j].exists /\ tasks'[j].status \notin TerminalStatuses)
                => tasks'[j].progress >= tasks[j].progress]_vars

\* a running wiki job has written its progress
C4_Witness ==
    \E j \in JobIds :
        /\ tasks[j].exists /\ tasks[j].status = PROGRESS
        /\ tasks[j].progress = WikiGenerateProgress
        /\ job[j].pc = "generate"

\* C5: get_task_status never raises: without the worker pool client it
\* returns UNKNOWN with the connection error message, and when the query
\* throws it returns ERROR_FETCHING_STATUS with the exception's message.
C5_StatusNeverRaises ==
    reply.op = "get_task_status" =>
        /\ ~reply.raised
        /\ ~celery_app =>
              /\ reply.value.status = UNKNOWN
              /\ reply.value.result = [type |-> "str", text |-> "Celery connection error."]
        /\ (celery_app /\ reply.query_raises) =>
              /\ reply.value.status = ERROR_FETCHING_STATUS
              /\ reply.value.result = [type |-> "str", text |-> "AsyncResult internal error"]

\* the query threw and the caller got the synthetic status
C5_Witness ==
    /\ reply.op = "get_task_status"
    /\ celery_app /\ reply.query_raises
    /\ reply.value.status = ERROR_FETCHING_STATUS

StatusFields == {"task_id", "status", "result", "details"}

\* C6: every status object get_task_status returns has the four fields
\* task_id, status, result and details, the synthetic ones included.
C6_StatusHasAllFields ==
    reply.op = "get_task_status" => DOMAIN reply.value = StatusFields

\* C7: get_task_status reports the worker pool's status unchanged; the
\* result is the wrapped error on FAILURE, the payload on SUCCESS, and
\* otherwise None with the progress metadata in details.
C7_StatusClassification ==
    (reply.op = "get_task_status" /\ celery_app /\ ~reply.query_raises) =>
        /\ reply.value.task_id = reply.task_id
        /\ reply.value.status = reply.polled.status
        /\ reply.polled.status = FAILURE =>
              reply.value.result = [type |-> "str", text |-> "Failure: ", of |-> reply.polled.result]
        /\ reply.polled.status = SUCCESS => reply.value.result = reply.polled.result
        /\ reply.polled.status \notin {FAILURE, SUCCESS} =>
              /\ reply.value.result = NoResult
              /\ reply.value.details = reply.polled.result

\* a job in progress was polled: no result, the metadata in details
C7_Witness ==
    /\ reply.op = "get_task_status"
    /\ celery_app /\ ~reply.query_raises
    /\ reply.polled.status = PROGRESS
    /\ reply.polled.result.type = "meta"
    /\ reply.value.details = reply.polled.result

\* C8: a status poll changes neither the job records, nor the worker pool's
\* state, nor any domain row.
C8_PollReadsOnly ==
    [][reply'.op = "get_task_status" =>
         UNCHANGED <<tasks, backend, job, repositories, knowledge_bases, wiki_documents>>]_vars

\* a job was polled while the worker was running it
C8_Witness ==
    /\ reply.op = "get_task_status"
    /\ Running(reply.task_id)
    /\ tasks[reply.task_id].exists
    /\ tasks[reply.task_id].status # reply.value.status

\* C9: a job-creation request whose url is not a github.com repository url
\* with a well-formed owner and name is rejected and no job is dispatched.
C9_InvalidUrlNeverDispatched ==
    (reply.op = "trigger_wiki_generation" /\ ~extract_owner_repo_from_url(reply.url).ok)
        => reply.task_id = NoId

\* the Repository rows of a url
RepositoriesOf(url) == {i \in 1..Len(repositories) : repositories[i].url = url}

\* the KnowledgeBase rows of the repositories of a url
KnowledgeBasesOf(url) == {kb \in knowledge_bases : kb.repository_id \in RepositoriesOf(url)}

\* C10: after the index job has run twice in sequence for one repository
\* url, there is exactly one Repository row and exactly one KnowledgeBase
\* row for it.
C10_TwoIndexRunsOneKnowledgeBase ==
    \A j, k \in JobIds :
        (/\ j # k
         /\ job[j].kind = "index" /\ job[k].kind = "index"
         /\ job[j].url = job[k].url
         /\ extract_owner_repo_from_url(job[j].url).ok
         /\ job[j].pc = "done" /\ job[k].pc = "done")
            => /\ Cardinality(RepositoriesOf(job[j].url)) = 1
               /\ Cardinality(KnowledgeBasesOf(job[j].url)) = 1

\* the WikiDocument rows of the repositories of a url
WikiDocumentsOf(url) == {d \in wiki_documents : d.repository_id \in RepositoriesOf(url)}

\* C11: after the wiki job has run twice in sequence for a url whose
\* repository is indexed and whose README is there, with no commit failing,
\* the repository has exactly one WikiDocument row and its version is 2.
C11_TwoWikiRunsVersionTwo ==
    \A j, k \in JobIds :
        (/\ j # k
         /\ job[j].kind = "wiki" /\ job[k].kind = "wiki"
         /\ job[j].url = job[k].url
         /\ RepositoriesOf(job[j].url) # {}
         /\ job[j].pc = "done" /\ job[k].pc = "done"
         /\ faults = 0)
            => /\ Cardinality(WikiDocumentsOf(job[j].url)) = 1
               /\ \A d \in WikiDocumentsOf(job[j].url) : d.version = 2

NotFoundError ==
    [type |-> "ValueError", detail |-> "Repository not found in database", status_code |-> 0]

\* C13: a wiki job that has run to its end, with no commit failing, for a
\* url no index job has succeeded for is in FAILURE on the "repository not
\* found" error.
C13_WikiWithoutIndexFails ==
    \A j \in JobIds :
        (/\ job[j].kind = "wiki" /\ job[j].pc = "done"
         /\ faults = 0
         /\ \A k \in JobIds :
                (job[k].kind = "index" /\ job[k].url = job[j].url)
                    => backend[k].status # SUCCESS)
            => /\ backend[j].status = FAILURE
               /\ backend[j].result.of = NotFoundError

\* the error get_readme_content raises for a timeout and for another transport failure
TimeoutError == get_readme_content(UrlAcme, "timeout").exc
TransportError == get_readme_content(UrlAcme, "request_error").exc

\* C14: when every content fetch times out, an index job for a valid url
\* that has run to its end with no commit failing is in FAILURE, and the
\* error recorded for it is the timeout error, which differs from the error
\* of any other transport failure.
C14_IndexTimeoutRecorded ==
    \A j \in JobIds :
        (/\ job[j].kind = "index" /\ job[j].pc = "done"
         /\ extract_owner_repo_from_url(job[j].url).ok
         /\ faults = 0)
            => /\ backend[j].status = FAILURE
               /\ backend[j].result.of = TimeoutError
               /\ TimeoutError # TransportError
               /\ tasks[j].exists =>
                      (tasks[j].status = FAILURE /\ tasks[j].result.error = TimeoutError)

(***************************************************************************)
(* A worker that keeps running: every job that can take a step takes it.   *)
(***************************************************************************)
Fairness == \A j \in JobIds : WF_vars(Step(j))

\* the service with backend.tasks imported
InitLive ==
    /\ Init
    /\ celery_app /\ index_repository_task /\ generate_wiki_task

SpecLive == InitLive /\ [][Next]_vars /\ Fairness

\* C15: every dispatched job runs to its end and the worker pool then
\* reports SUCCESS or FAILURE for it; and no step takes a job back out of
\* the queue, changes what it is, or revokes it.
C15_JobsTerminate ==
    /\ \A j \in JobIds :
           (job[j].pc = "queued")
               ~> (job[j].pc = "done" /\ backend[j].status \in {SUCCESS, FAILURE})
    /\ [][\A j \in JobIds :
            job[j].pc # "none" =>
                /\ job'[j].pc # "none"
                /\ job'[j].kind = job[j].kind
                /\ job'[j].url = job[j].url
                /\ backend'[j].status # REVOKED
                /\ job[j].pc = "done" => job'[j].pc = "done"]_vars

\* an index job and a wiki job have both run to their end
C15_Witness ==
    \E j, k \in JobIds :
        /\ job[j].kind = "index" /\ job[j].pc = "done"
        /\ job[k].kind = "wiki" /\ job[k].pc = "done"
        /\ backend[j].status = FAILURE /\ backend[k].status = FAILURE

\* C16: when the README is there, an index job for a valid url that is the
\* only index job for that url and has run to its end with no commit failing
\* is in SUCCESS, a Repository row holds the owner and name resolved from
\* the url, and the repository's KnowledgeBase row has document_count 1.
C16_IndexEndToEnd ==
    \A j \in JobIds :
        (/\ job[j].kind = "index" /\ job[j].pc = "done"
         /\ extract_owner_repo_from_url(job[j].url).ok
         /\ \A k \in JobIds \ {j} : ~(job[k].kind = "index" /\ job[k].url = job[j].url)
         /\ faults = 0)
            => /\ backend[j].status = SUCCESS
               /\ tasks[j].exists => tasks[j].status = SUCCESS
               /\ \E i \in RepositoriesOf(job[j].url) :
                      /\ repositories[i].owner = extract_owner_repo_from_url(job[j].url).owner
                      /\ repositories[i].name = extract_owner_repo_from_url(job[j].url).repo
               /\ \E kb \in KnowledgeBasesOf(job[j].url) : kb.document_count = 1

\* the resolver has answered the call
ResolvedCall == reply.op = "extract_owner_repo_from_url"

\* the owner rule: letters, digits and inner hyphens, at most 39 characters
OwnerIsValid(owner) ==
    /\ Len(owner) \in 1..OwnerMaxLen
    /\ \A i \in 1..Len(owner) : owner[i] \in AlnumChars \cup {"-"}
    /\ owner[1] # "-" /\ owner[Len(owner)] # "-"

\* the name rule: letters, digits, '_', '.', '-', at most 100 characters,
\* no "..", no leading hyphen
NameIsValid(name) ==
    /\ Len(name) \in 1..RepoMaxLen
    /\ \A i \in 1..Len(name) : name[i] \in AlnumChars \cup {"_", ".", "-"}
    /\ name[1] # "-"
    /\ \A i \in 1..(Len(name) - 1) : ~(name[i] = "." /\ name[i + 1] = ".")

C18_BadOwnerOrNameFails ==
    (/\ ResolvedCall
     /\ \/ \E i \in 1..Len(reply.owner) : reply.owner[i] = "."
        \/ reply.owner[1] = "-"
        \/ reply.owner[Len(reply.owner)] = "-"
        \/ reply.name[1] = "-"
        \/ \E i \in 1..(Len(reply.name) - 1) : reply.name[i] = "." /\ reply.name[i + 1] = ".")
        => ~reply.result.ok

\* C19: the resolver fails for every url whose second path segment holds a
\* character outside letters, digits, '_', '.' and '-'; it never returns a
\* name cut off at that character.
C19_BadNameCharacterFails ==
    (/\ ResolvedCall
     /\ \E i \in 1..Len(reply.name) : reply.name[i] \notin AlnumChars \cup {"_", ".", "-"})
        => ~reply.result.ok

\* C20: when an index job has failed after writing part of its data, and it
\* is the only job there has been for its url, nothing it wrote is left: no
\* Repository row for the url, no link from its record to a repository, and
\* its record, where it has one, is in FAILURE.
C20_FailedIndexLeavesNothing ==
    \A j \in JobIds :
        (/\ job[j].kind = "index" /\ job[j].pc = "done"
         /\ backend[j].status = FAILURE
         /\ faults = 0
         /\ \A k \in JobIds \ {j} : job[k].url # job[j].url)
            => /\ RepositoriesOf(job[j].url) = {}
               /\ tasks[j].repository_id = NoId
               /\ (tasks[j].exists => tasks[j].status = FAILURE)

\* the error the unique index on repositories.url raises for a second insert
ConflictError == [type |-> "IntegrityError", detail |-> "repositories.url", status_code |-> 0]

\* C21: under every interleaving of two index jobs for the same url the
\* find-or-create step is safe: neither job fails on the conflict over the
\* Repository row, and once both have ended exactly one row for the url exists.
C21_FindOrCreateSafe ==
    \A j \in JobIds : \A k \in JobIds \ {j} :
        (/\ job[j].kind = "index" /\ job[k].kind = "index"
         /\ job[j].url = job[k].url
         /\ extract_owner_repo_from_url(job[j].url).ok)
            => /\ job[j].exc # ConflictError
               /\ (backend[j].status = FAILURE => backend[j].result.of # ConflictError)
               /\ (job[j].pc = "done" /\ job[k].pc = "done" /\ faults = 0)
                      => Cardinality(RepositoriesOf(job[j].url)) = 1

\* lines 70 and 190: the job body runs inside `with db_session_scope() as db`,
\* from before the STARTED write until the function returns or raises
SessionOpen(j) == Running(j)

\* lines 220-228: the job is at the content generation call, which fetches the
\* README from api.github.com
AtExternalCall(j) == job[j].pc = "generate"

\* C22: no job holds an open database session while its content fetch or
\* content generation call is in progress.
C22_NoSessionAcrossExternalCall ==
    \A j \in JobIds : AtExternalCall(j) => ~SessionOpen(j)

\* the progress the index job is to report once the content is processed and stored
IndexStoredProgress == 50

\* C23: the index job writes its Repository row only after its record has
\* been moved to PROGRESS(50), the write that follows the content fetch
\* (PROGRESS(20)) and the processing and storing of the content.
C23_IndexWriteOrder ==
    [][\A j \in JobIds :
           (/\ job[j].kind = "index" /\ tasks[j].exists
            /\ job[j].pc = "create_repository" /\ job'[j].pc = "associate"
            /\ Len(repositories') = Len(repositories) + 1)
               => /\ tasks[j].status = PROGRESS
                  /\ tasks[j].progress = IndexStoredProgress]_vars

(***************************************************************************)
(* api.github.com reports that the repository has no README.               *)
(***************************************************************************)
WorkNoReadme == \E j \in JobIds : StepUnder(j, "status_404")

NextNoReadme == Dispatch \/ WorkNoReadme

SpecNoReadme == Init /\ [][NextNoReadme]_vars

\* C24: when the repository has no README, an index job for a valid url that
\* has run to its end with no commit failing is in SUCCESS, and the
\* KnowledgeBase row of the url counts zero documents.
C24_MissingReadmeNotFatal ==
    \A j \in JobIds :
        (/\ job[j].kind = "index" /\ job[j].pc = "done"
         /\ extract_owner_repo_from_url(job[j].url).ok
         /\ faults = 0)
            => /\ backend[j].status = SUCCESS
               /\ \E kb \in KnowledgeBasesOf(job[j].url) : kb.document_count = 0

\* the exception the indexing collaborator raises in the index job
IndexerError == IndexPipeline({"document_store"}).exc

\* C25: when the indexing collaborator has raised, the index job ends with
\* its job record in FAILURE and the record's result holding the exception
\* message and the stack trace.
C25_IndexerFailureRecorded ==
    \A j \in JobIds :
        (/\ job[j].kind = "index" /\ job[j].pc = "done"
         /\ backend[j].status = FAILURE
         /\ backend[j].result.of = IndexerError)
            => /\ tasks[j].exists
               /\ tasks[j].status = FAILURE
               /\ tasks[j].result = error_info(IndexerError)

\* C26: on every path where the job body has recorded FAILURE the worker
\* function exits by raising: the job is on its way out through the handler,
\* or it has ended and the pool holds FAILURE with the raised exception,
\* never SUCCESS.
C26_FailureIsReraised ==
    \A j \in JobIds :
        (/\ job[j].kind \in {"index", "wiki"}
         /\ tasks[j].exists /\ tasks[j].status = FAILURE)
            => \/ job[j].pc = "except" /\ job[j].exc # NoExc
               \/ /\ job[j].pc = "done"
                  /\ backend[j].status = FAILURE
                  /\ backend[j].result.type = "exception"

\* an index job and a wiki job have both recorded FAILURE and ended, and the
\* pool holds the exception of each
C26_Witness ==
    \E j \in JobIds : \E k \in JobIds :
        /\ job[j].kind = "index" /\ job[k].kind = "wiki"
        /\ job[j].pc = "done" /\ job[k].pc = "done"
        /\ tasks[j].status = FAILURE /\ tasks[k].status = FAILURE
        /\ backend[j].result = [type |-> "exception", of |-> IndexerError]
        /\ backend[k].result = [type |-> "exception", of |-> NotFoundError]

\* texts with nothing to read in them
BlankTexts == {"", " "}

\* the errors content generation ends in when it yields no text
NoTextErrors == {generate_wiki_from_repo_readme(UrlAcme, gh).exc : gh \in FetchOutcomes}

\* C27: every stored WikiDocument has content that is not blank; a wiki job
\* whose content generation yields no text leaves table wiki_documents as it
\* is, on the generation step and on the way out, and ends in FAILURE; a wiki
\* job ends otherwise only with a WikiDocument of its repository stored.
C27_NoTextIsFailure ==
    /\ [](\A d \in wiki_documents : d.content_markdown \notin BlankTexts)
    /\ [][\A j \in JobIds :
              /\ (job[j].kind = "wiki" /\ job[j].pc = "generate" /\ job'[j].pc = "except")
                     => wiki_documents' = wiki_documents
              /\ (job[j].kind = "wiki" /\ job[j].pc = "except" /\ job'[j].pc = "done")
                     => /\ wiki_documents' = wiki_documents
                        /\ backend'[j].status = FAILURE
              /\ (job[j].kind = "wiki" /\ job[j].pc = "generate" /\ job'[j].pc = "done")
                     => \E d \in wiki_documents' :
                            /\ d.repository_id = job[j].repository
                            /\ d.content_markdown \notin BlankTexts]_vars

\* a wiki job for an indexed repository has ended after a generation that
\* yielded no text: the pool holds FAILURE and no WikiDocument is stored
C27_Witness ==
    \E j \in JobIds :
        /\ job[j].kind = "wiki" /\ job[j].pc = "done"
        /\ RepositoriesOf(job[j].url) # {}
        /\ backend[j].status = FAILURE
        /\ backend[j].result.of \in NoTextErrors
        /\ wiki_documents = {}

\* C28: whenever the worker pool reports SUCCESS for a job that has a job
\* record, the record's status is SUCCESS, and whenever it reports FAILURE
\* the record's status is FAILURE, failed status writes included.
C28_RecordAgreesWithPool ==
    \A j \in JobIds :
        (tasks[j].exists /\ backend[j].status \in {SUCCESS, FAILURE})
            => tasks[j].status = backend[j].status

\* the steps that are one status write and nothing else, by the place the
\* job is at before and the place it goes on to
StatusWriteSteps == {<<"queued", "find_repository">>, <<"progress", "generate">>}

\* C29: a status write never changes a job's outcome.  The job goes on to
\* its next step whether the write went through or not and no exception is
\* raised; with no job record under the id, and when the write itself fails,
\* every table is left as it was; and the handler's write leaves the raised
\* exception as the pool's result.
C29_StatusWriteNeverChangesOutcome ==
    [][\A j \in JobIds :
          /\ \A w \in StatusWriteSteps :
                (job[j].pc = w[1] /\ job'[j] # job[j])
                    => /\ job'[j].pc = w[2]
                       /\ job'[j].exc = NoExc
                       /\ (~tasks[j].exists \/ faults' # faults)
                              => UNCHANGED <<tasks, repositories, knowledge_bases, wiki_documents>>
          /\ (job[j].pc = "except" /\ job'[j].pc = "done")
                => /\ backend'[j] = Reraised(job[j].exc)
                   /\ (~tasks[j].exists \/ faults' # faults)
                          => UNCHANGED <<tasks, repositories, knowledge_bases, wiki_documents>>]_vars

\* the STARTED write of a job failed, and the job went on to look for its repository
C29_Witness ==
    \E j \in JobIds :
        /\ job[j].pc = "find_repository"
        /\ faults = 1
        /\ tasks[j].exists /\ tasks[j].status = PENDING

====
